---- MODULE Spec2Model ----
(***************************************************************************)
(* A model of main.py of tradingview-news-ai-service: the two FastAPI      *)
(* handlers analyze_news and get_market_context, the article formatting    *)
(* and prompt construction they do, and json.loads on the verdict text.    *)
(*                                                                         *)
(* Text is a sequence of tokens (strings).  The line break is the token    *)
(* "\n"; fixed wording of the source is one token per phrase.  A Python    *)
(* value that is formatted into text (an article field, message.content)   *)
(* is a record [type, text]: a str, or None.                               *)
(***************************************************************************)
EXTENDS Naturals, Sequences, FiniteSets, TLC

VARIABLES req, fmt

vars == <<req, fmt>>

(***************************************************************************)
(* Bounds of the model.                                                    *)
(***************************************************************************)
NumRequests == 2
MaxArticles == 2

Requests == 1..NumRequests

(***************************************************************************)
(* Python values and their str().                                          *)
(***************************************************************************)
PyStr(t) == [type |-> "str", text |-> t]
None == [type |-> "NoneType", text |-> <<>>]

\* str(v) as an f-string field does it: a str is itself, None is "None".
Str(v) == IF v.type = "NoneType" THEN <<"None">> ELSE v.text

NL == "\n"

RECURSIVE Join(_, _)
\* sep.join(parts)
Join(sep, parts) ==
    IF Len(parts) = 0 THEN <<>>
    ELSE IF Len(parts) = 1 THEN parts[1]
    ELSE parts[1] \o sep \o Join(sep, Tail(parts))

\* text occurs in whole as a contiguous part of within
Contains(within, text) ==
    \E i \in 1..(Len(within) + 1) :
        /\ i + Len(text) - 1 <= Len(within)
        /\ SubSeq(within, i, i + Len(text) - 1) = text

(***************************************************************************)
(* Article formatting, main.py lines 67-73.  An article is a dict: a       *)
(* function from the keys it has to Python values.                         *)
(***************************************************************************)
\* dict.get(key, default)
Get(article, key, default) ==
    IF key \in DOMAIN article THEN article[key] ELSE PyStr(default)

\* A block that leaves an absent field empty instead of naming a placeholder.
FormatBlockNoPlaceholder(article) ==
       <<"Title: ">> \o Str(Get(article, "title", <<>>)) \o <<NL>>
    \o <<"Content: ">> \o Str(Get(article, "content", <<>>)) \o <<NL>>
    \o <<"Source: ">> \o Str(Get(article, "source", <<>>)) \o <<NL>>
    \o <<"Date: ">> \o Str(Get(article, "date", <<>>))

FormatBlock(article) ==
       <<"Title: ">> \o Str(Get(article, "title", <<"No Title">>)) \o <<NL>>
    \o <<"Content: ">> \o Str(Get(article, "content", <<"No Content">>)) \o <<NL>>
    \o <<"Source: ">> \o Str(Get(article, "source", <<"Unknown">>)) \o <<NL>>
    \o <<"Date: ">> \o Str(Get(article, "date", <<"Unknown">>))

FormatArticles(articles) ==
    Join(<<NL, NL>>, [i \in 1..Len(articles) |-> FormatBlock(articles[i])])

(***************************************************************************)
(* The articles the formatter is run on: every combination of present and  *)
(* absent fields, a content of several lines, and a null source.           *)
(***************************************************************************)
FieldValues(key) ==
    CASE key = "title"   -> {PyStr(<<"ECB holds rates">>)}
      [] key = "content" -> {PyStr(<<"Rates unchanged.">>),
                             PyStr(<<"Rates unchanged.", NL, "Euro up.">>)}
      [] key = "source"  -> {PyStr(<<"Reuters">>), None}
      [] key = "date"    -> {PyStr(<<"2024-01-10">>)}

Fields == {"title", "content", "source", "date"}

ArticleRecords ==
    UNION { { a \in [ks -> UNION {FieldValues(k) : k \in ks}] :
                \A k \in ks : a[k] \in FieldValues(k) } : ks \in SUBSET Fields }

RECURSIVE ListsUpTo(_, _)
ListsUpTo(S, n) ==
    IF n = 0 THEN {<<>>}
    ELSE LET shorter == ListsUpTo(S, n - 1)
         IN  shorter \cup { Append(l, x) : l \in {s \in shorter : Len(s) = n - 1}, x \in S }

ArticleLists == ListsUpTo(ArticleRecords, MaxArticles)

FmtOff == [pc |-> "off", articles |-> <<>>, text |-> <<>>]

\* One evaluation of lines 67-73 on the list drawn at the start.
Format ==
    /\ fmt.pc = "ready"
    /\ fmt' = [fmt EXCEPT !.pc = "done", !.text = FormatArticles(fmt.articles)]
    /\ UNCHANGED req

(***************************************************************************)
(* json.loads, main.py line 122.  A JSON text is a sequence of lexical     *)
(* tokens: the punctuation { } [ ] : , the literal null, string literals   *)
(* (written with their quotes) and number literals; any other token is     *)
(* text no JSON value starts with.  The parsed value is a record           *)
(* [kind, s, n, members, items]; an object's members are <<key, value>>    *)
(* pairs, a repeated key keeping its last value as a Python dict does.     *)
(***************************************************************************)
StringLiterals ==
       "\"verdict\"" :> "verdict"
    @@ "\"confidence\"" :> "confidence"
    @@ "\"key_reason\"" :> "key_reason"
    @@ "\"BUY\"" :> "BUY"
    @@ "\"SELL\"" :> "SELL"
    @@ "\"HOLD\"" :> "HOLD"
    @@ "\"Rate hold seen as supportive\"" :> "Rate hold seen as supportive"

NumberLiterals == "70" :> 70 @@ "42" :> 42

JStr(s) == [kind |-> "string", s |-> s, n |-> 0, members |-> {}, items |-> <<>>]
JNum(n) == [kind |-> "number", s |-> "", n |-> n, members |-> {}, items |-> <<>>]
JNull == [kind |-> "null", s |-> "", n |-> 0, members |-> {}, items |-> <<>>]
JObj(members) == [kind |-> "object", s |-> "", n |-> 0, members |-> members, items |-> <<>>]
JArr(items) == [kind |-> "array", s |-> "", n |-> 0, members |-> {}, items |-> items]

\* d[key] = value on a dict
Put(members, key, value) == {m \in members : m[1] # key} \cup {<<key, value>>}

Parsed(v, next) == [ok |-> TRUE, val |-> v, next |-> next]
NoParse == [ok |-> FALSE, val |-> JNull, next |-> 0]

RECURSIVE ParseValue(_, _), ParseMembers(_, _, _), ParseItems(_, _, _)

\* The value that starts at token i, and the place after it.
ParseValue(t, i) ==
    IF i > Len(t) THEN NoParse
    ELSE IF t[i] \in DOMAIN StringLiterals THEN Parsed(JStr(StringLiterals[t[i]]), i + 1)
    ELSE IF t[i] \in DOMAIN NumberLiterals THEN Parsed(JNum(NumberLiterals[t[i]]), i + 1)
    ELSE IF t[i] = "null" THEN Parsed(JNull, i + 1)
    ELSE IF t[i] = "{" THEN
        IF i + 1 <= Len(t) /\ t[i + 1] = "}" THEN Parsed(JObj({}), i + 2)
        ELSE ParseMembers(t, i + 1, {})
    ELSE IF t[i] = "[" THEN
        IF i + 1 <= Len(t) /\ t[i + 1] = "]" THEN Parsed(JArr(<<>>), i + 2)
        ELSE ParseItems(t, i + 1, <<>>)
    ELSE NoParse

ParseMembers(t, i, acc) ==
    IF i + 1 > Len(t) \/ t[i] \notin DOMAIN StringLiterals \/ t[i + 1] # ":" THEN NoParse
    ELSE LET v == ParseValue(t, i + 2)
             now == Put(acc, StringLiterals[t[i]], v.val)
         IN  IF ~v.ok \/ v.next > Len(t) THEN NoParse
             ELSE IF t[v.next] = "}" THEN Parsed(JObj(now), v.next + 1)
             ELSE IF t[v.next] = "," THEN ParseMembers(t, v.next + 1, now)
             ELSE NoParse

ParseItems(t, i, acc) ==
    LET v == ParseValue(t, i)
    IN  IF ~v.ok \/ v.next > Len(t) THEN NoParse
        ELSE IF t[v.next] = "]" THEN Parsed(JArr(Append(acc, v.val)), v.next + 1)
        ELSE IF t[v.next] = "," THEN ParseItems(t, v.next + 1, Append(acc, v.val))
        ELSE NoParse

Exc(type, text) == [type |-> type, text |-> text]
NoExc == Exc("", <<>>)
IndexError == Exc("IndexError", <<"list index out of range">>)
JSONDecodeError == Exc("JSONDecodeError", <<"Expecting value: line 1 column 1 (char 0)">>)
TypeError ==
    Exc("TypeError", <<"the JSON object must be str, bytes or bytearray, not NoneType">>)

Value(v) == [raised |-> FALSE, exc |-> NoExc, val |-> v]
Raise(e) == [raised |-> TRUE, exc |-> e, val |-> JNull]

\* A loads that also refuses an object whose verdict is none of the five literals.
LoadsEnumOnly(s) ==
    IF s.type # "str" THEN Raise(TypeError)
    ELSE LET p == ParseValue(s.text, 1)
             known == {JStr("STRONG_BUY"), JStr("BUY"), JStr("NEUTRAL"), JStr("SELL"),
                       JStr("STRONG_SELL")}
         IN  IF /\ p.ok
                /\ p.next = Len(s.text) + 1
                /\ \A m \in p.val.members : m[1] = "verdict" => m[2] \in known
             THEN Value(p.val)
             ELSE Raise(JSONDecodeError)

\* json.loads(s): a str must hold one value and nothing after it; anything
\* that is not a str, bytes or bytearray is a TypeError.
Loads(s) ==
    IF s.type # "str" THEN Raise(TypeError)
    ELSE LET p == ParseValue(s.text, 1)
         IN  IF p.ok /\ p.next = Len(s.text) + 1 THEN Value(p.val)
             ELSE Raise(JSONDecodeError)

\* The verdict of lines 121-129: json.loads of the content, and the fixed
\* dict when it raises JSONDecodeError; any other exception goes on.
DefaultVerdict ==
    JObj({<<"verdict", JStr("NEUTRAL")>>,
          <<"confidence", JNum(50)>>,
          <<"key_reason", JStr("Could not parse verdict response")>>})

VerdictJson(content) ==
    LET l == Loads(content)
    IN  IF l.raised /\ l.exc.type = "JSONDecodeError" THEN Value(DefaultVerdict) ELSE l

(***************************************************************************)
(* Prompts and completion calls, main.py lines 23-56, 75-117, 145-164.     *)
(***************************************************************************)
SYSTEM_PROMPT == <<"You are a financial news analyst. [...] Format numbers clearly">>
ADVISOR_PROMPT ==
    <<"You are a trading advisor that provides clear, decisive trading verdicts based on news analysis.">>
ANALYST_PROMPT ==
    <<"You are a market analyst providing context and correlation analysis for trading instruments.">>

NarrativePrompt(instrument, articles_text) ==
       <<"Analyze these news articles about ">> \o instrument
    \o <<" and provide a concise market analysis.", NL, NL, "News Articles:", NL>>
    \o articles_text
    \o <<NL, NL, "Format your response according to the following guidelines:", NL>>
    \o SYSTEM_PROMPT

\* A verdict prompt that carries only the first line of the analysis.
VerdictPromptFirstLine(instrument, content) ==
       <<"Based on the news analysis, provide a clear trading verdict for ">> \o instrument
    \o <<".", NL, "Previous analysis: ">> \o SubSeq(Str(content), 1, 1)
    \o <<NL, NL, "Format your response as a JSON with these fields:", NL,
         "- verdict: (STRONG_BUY, BUY, NEUTRAL, SELL, STRONG_SELL)", NL,
         "- confidence: (percentage between 0-100)", NL,
         "- key_reason: (brief explanation)">>

VerdictPrompt(instrument, content) ==
       <<"Based on the news analysis, provide a clear trading verdict for ">> \o instrument
    \o <<".", NL, "Previous analysis: ">> \o Str(content)
    \o <<NL, NL, "Format your response as a JSON with these fields:", NL,
         "- verdict: (STRONG_BUY, BUY, NEUTRAL, SELL, STRONG_SELL)", NL,
         "- confidence: (percentage between 0-100)", NL,
         "- key_reason: (brief explanation)">>

ContextPrompt(instrument) ==
       <<"Provide a brief market context analysis for ">> \o instrument
    \o <<". Consider:", NL, "1. Related instruments and their performance", NL,
         "2. Key market drivers", NL, "3. Important technical levels", NL,
         "4. Upcoming economic events that might impact the instrument", NL, NL,
         "Format your response in a clear, concise way.">>

\* The arguments of one client.chat.completions.create
Create(system, user, temperature, max_tokens) ==
    [model |-> "gpt-4-0125-preview", system |-> system, user |-> user,
     temperature |-> temperature, max_tokens |-> max_tokens]

(***************************************************************************)
(* What a completion call comes back with: it raises, or it returns a      *)
(* response whose choices are given here by their message.content, each a  *)
(* str or None.                                                            *)
(***************************************************************************)
Raised(e) == [raised |-> TRUE, exc |-> e, choices |-> <<>>]
Returned(choices) == [raised |-> FALSE, exc |-> NoExc, choices |-> choices]

(***************************************************************************)
(* A request: where its handler stands (pc), its inputs, the completion    *)
(* calls it has issued, what each came back with (results[1] is            *)
(* analysis_response or response, results[2] is verdict_response) and the  *)
(* HTTP responses sent for it.                                             *)
(***************************************************************************)
NewRequest ==
    [pc |-> "idle", kind |-> "none", instrument |-> <<>>, articles |-> <<>>,
     calls |-> <<>>, results |-> <<>>, out |-> <<>>]

\* return of a handler: FastAPI sends the dict with status 200
Return(body) == [status_code |-> 200, body |-> body]

HTTPException(status_code, detail) ==
    [status_code |-> status_code, body |-> [detail |-> detail]]

\* except Exception as e: raise HTTPException(status_code=500, detail=str(e))
Fail(rq, e) ==
    [rq EXCEPT !.pc = "aborted", !.out = Append(@, HTTPException(500, e.text))]

\* Lines 63-95: the articles are formatted, the prompt is built and the first
\* completion call is issued.
StartAnalysis(rq, instrument, articles) ==
    [rq EXCEPT !.pc = "stage1", !.kind = "analyze",
               !.instrument = instrument, !.articles = articles,
               !.calls = Append(@, Create(SYSTEM_PROMPT,
                                          NarrativePrompt(instrument, FormatArticles(articles)),
                                          "0.5", 1000))]

\* A handler that goes on to the verdict call whatever the first call did.
OnAnalysisGoesOn(rq, result) ==
    LET got == [rq EXCEPT !.results = Append(@, result)]
        content == IF result.raised \/ Len(result.choices) = 0 THEN None
                   ELSE result.choices[1]
    IN  [got EXCEPT !.pc = "stage2",
                    !.calls = Append(@, Create(ADVISOR_PROMPT,
                                               VerdictPrompt(got.instrument, content),
                                               "0.3", 200))]

\* Lines 84-117: the first call is back; the verdict prompt reads
\* choices[0].message.content and the second call is issued.
OnAnalysis(rq, result) ==
    LET got == [rq EXCEPT !.results = Append(@, result)]
    IN  IF result.raised THEN Fail(got, result.exc)
        ELSE IF Len(result.choices) = 0 THEN Fail(got, IndexError)
        ELSE [got EXCEPT !.pc = "stage2",
                         !.calls = Append(@, Create(ADVISOR_PROMPT,
                                                    VerdictPrompt(got.instrument,
                                                                  result.choices[1]),
                                                    "0.3", 200))]

\* A handler that answers with the analysis and the fixed verdict when the
\* second call fails.
OnVerdictPartial(rq, analysis_response, result) ==
    LET got == [rq EXCEPT !.results = Append(@, result)]
        verdict_json == IF result.raised \/ Len(result.choices) = 0
                        THEN Value(DefaultVerdict)
                        ELSE VerdictJson(result.choices[1])
    IN  IF verdict_json.raised THEN Fail(got, verdict_json.exc)
        ELSE [got EXCEPT !.pc = "done",
                         !.out = Append(@, Return([status |-> "success",
                                                   analysis |-> analysis_response.choices[1],
                                                   verdict |-> verdict_json.val]))]

\* Lines 106-139: the second call is back; its content is parsed and the
\* result returned with the content of analysis_response.
OnVerdict(rq, analysis_response, result) ==
    LET got == [rq EXCEPT !.results = Append(@, result)]
    IN  IF result.raised THEN Fail(got, result.exc)
        ELSE IF Len(result.choices) = 0 THEN Fail(got, IndexError)
        ELSE LET verdict_json == VerdictJson(result.choices[1])
             IN  IF verdict_json.raised THEN Fail(got, verdict_json.exc)
                 ELSE [got EXCEPT !.pc = "done",
                                  !.out = Append(@, Return([status |-> "success",
                                                            analysis |-> analysis_response.choices[1],
                                                            verdict |-> verdict_json.val]))]

\* Lines 142-164: the prompt is built and the completion call is issued.
StartContext(rq, instrument) ==
    [rq EXCEPT !.pc = "context", !.kind = "context", !.instrument = instrument,
               !.calls = Append(@, Create(ANALYST_PROMPT, ContextPrompt(instrument),
                                          "0.5", 500))]

\* A handler that issues the call again when it raised.
OnContextRetry(rq, result) ==
    LET got == [rq EXCEPT !.results = Append(@, result)]
    IN  IF result.raised
        THEN [got EXCEPT !.calls = Append(@, Create(ANALYST_PROMPT,
                                                    ContextPrompt(got.instrument),
                                                    "0.5", 500))]
        ELSE IF Len(result.choices) = 0 THEN Fail(got, IndexError)
        ELSE [got EXCEPT !.pc = "done",
                         !.out = Append(@, Return([market_context |-> result.choices[1]]))]

\* A handler that returns only the first line of the completion.
OnContextFirstLine(rq, result) ==
    LET got == [rq EXCEPT !.results = Append(@, result)]
    IN  IF result.raised THEN Fail(got, result.exc)
        ELSE IF Len(result.choices) = 0 THEN Fail(got, IndexError)
        ELSE [got EXCEPT !.pc = "done",
                         !.out = Append(@, Return([market_context |->
                                    [result.choices[1] EXCEPT !.text = SubSeq(@, 1, 1)]]))]

\* Lines 153-171: the call is back and its content is returned.
OnContext(rq, result) ==
    LET got == [rq EXCEPT !.results = Append(@, result)]
    IN  IF result.raised THEN Fail(got, result.exc)
        ELSE IF Len(result.choices) = 0 THEN Fail(got, IndexError)
        ELSE [got EXCEPT !.pc = "done",
                         !.out = Append(@, Return([market_context |-> result.choices[1]]))]

(***************************************************************************)
(* What the callers send and what the completion service answers.          *)
(***************************************************************************)
Instruments == {<<"EURUSD">>, <<"XAUUSD">>}

FullArticle ==
    [title |-> PyStr(<<"ECB holds rates">>), content |-> PyStr(<<"Rates unchanged.">>),
     source |-> PyStr(<<"Reuters">>), date |-> PyStr(<<"2024-01-10">>)]
BareArticle == [title |-> PyStr(<<"Gold slips">>)]

RequestArticles == {<<>>, <<FullArticle>>, <<FullArticle, BareArticle>>}

Narratives ==
    {<<"*Market Impact Analysis*", NL, "Direction: Bullish">>,
     <<"*Market Impact Analysis*", NL, "Direction: Bearish">>}

ContextTexts == {<<"Related instruments:", NL, "DXY is weak">>}

ConnectionError == Exc("APIConnectionError", <<"Connection error.">>)
RateLimitError == Exc("RateLimitError", <<"Error code: 429 - rate limit reached">>)
UpstreamErrors == {ConnectionError, RateLimitError}

\* The token that writes a string or a number in JSON.
StringLiteral(s) == CHOOSE tok \in DOMAIN StringLiterals : StringLiterals[tok] = s
NumberLiteral(n) == CHOOSE tok \in DOMAIN NumberLiterals : NumberLiterals[tok] = n

\* The JSON object that gives the three fields, in the order of keys.
VerdictObject(keys, v, c, k) ==
    LET lit(key) == CASE key = "verdict" -> StringLiteral(v)
                      [] key = "confidence" -> NumberLiteral(c)
                      [] key = "key_reason" -> StringLiteral(k)
    IN  <<"{">>
        \o Join(<<",">>, [i \in 1..Len(keys) |-> <<StringLiteral(keys[i]), ":", lit(keys[i])>>])
        \o <<"}">>

KeyOrders == {<<"verdict", "confidence", "key_reason">>, <<"key_reason", "confidence", "verdict">>}
VerdictWords == {"BUY", "HOLD"}
Confidences == {70}
Reasons == {"Rate hold seen as supportive"}

\* Objects with the three fields.
WellFormedTexts ==
    { VerdictObject(o, v, c, k) : o \in KeyOrders, v \in VerdictWords,
                                  c \in Confidences, k \in Reasons }

Sample == VerdictObject(<<"verdict", "confidence", "key_reason">>, "BUY", 70,
                        "Rate hold seen as supportive")

\* Texts that are not JSON: prose, nothing, an object after prose, an object cut
\* short, an object before prose, an object with a trailing comma.
MalformedTexts ==
    { <<"I think buy">>,
      <<>>,
      <<"Here is the verdict:">> \o Sample,
      SubSeq(Sample, 1, Len(Sample) - 1),
      Sample \o <<"Hope this helps">>,
      <<"{", "\"verdict\"", ":", "\"BUY\"", ",", "}">> }

\* Texts that are JSON but not an object with the three fields.
OtherJsonTexts ==
    { <<"42">>,
      <<"\"BUY\"">>,
      <<"null">>,
      <<"[", "\"BUY\"", ",", "70", "]">>,
      <<"{", "}">>,
      <<"{", "\"verdict\"", ":", "\"BUY\"", "}">> }

Failures == {Raised(e) : e \in UpstreamErrors} \cup {Returned(<<>>)}

AnalysisResults ==
    Failures \cup {Returned(<<None>>)} \cup {Returned(<<PyStr(t)>>) : t \in Narratives}

VerdictResults ==
    Failures \cup {Returned(<<None>>)}
    \cup {Returned(<<PyStr(t)>>) : t \in WellFormedTexts \cup MalformedTexts \cup OtherJsonTexts}

ContextResults ==
    Failures \cup {Returned(<<None>>)} \cup {Returned(<<PyStr(t)>>) : t \in ContextTexts}

\* The smaller choice used when several requests are in flight.
ConcurrentArticles == {<<>>}
ConcurrentAnalysisResults ==
    {Raised(ConnectionError), Returned(<<>>)} \cup {Returned(<<PyStr(t)>>) : t \in Narratives}
ConcurrentVerdictResults ==
    {Raised(ConnectionError), Returned(<<>>), Returned(<<PyStr(Sample)>>),
     Returned(<<PyStr(<<"I think buy">>)>>)}
ConcurrentContextResults ==
    {Raised(ConnectionError)} \cup {Returned(<<PyStr(t)>>) : t \in ContextTexts}

(***************************************************************************)
(* The steps of a request.  A handler runs from one completion call to     *)
(* the next; between them other requests may run.  Each invocation reads   *)
(* its own local variables.                                                *)
(***************************************************************************)
\* An analysis_response kept in one place for all requests: a handler reads
\* the one of the lowest request that has one.
AnalysisResponseShared(r) ==
    LET has(q) == /\ req[q].kind = "analyze"
                  /\ Len(req[q].results) > 0
                  /\ ~req[q].results[1].raised
                  /\ Len(req[q].results[1].choices) > 0
    IN  req[CHOOSE q \in Requests : has(q) /\ \A p \in Requests : has(p) => q <= p].results[1]

\* The local variable analysis_response of request r's invocation.
AnalysisResponse(r) == req[r].results[1]

AnalyzeNews(r, instrument, articles) ==
    /\ req[r].pc = "idle"
    /\ req' = [req EXCEPT ![r] = StartAnalysis(req[r], instrument, articles)]
    /\ UNCHANGED fmt

AnalysisReturns(r, result) ==
    /\ req[r].pc = "stage1"
    /\ req' = [req EXCEPT ![r] = OnAnalysis(req[r], result)]
    /\ UNCHANGED fmt

VerdictReturns(r, result) ==
    /\ req[r].pc = "stage2"
    /\ req' = [req EXCEPT ![r] = OnVerdict(req[r], AnalysisResponse(r), result)]
    /\ UNCHANGED fmt

GetMarketContext(r, instrument) ==
    /\ req[r].pc = "idle"
    /\ req' = [req EXCEPT ![r] = StartContext(req[r], instrument)]
    /\ UNCHANGED fmt

ContextReturns(r, result) ==
    /\ req[r].pc = "context"
    /\ req' = [req EXCEPT ![r] = OnContext(req[r], result)]
    /\ UNCHANGED fmt

(***************************************************************************)
(* Spec: one request, with every kind of answer from the completion        *)
(* service.  SpecConcurrent: NumRequests requests in flight, their steps   *)
(* interleaved.  SpecFormat: the article formatter on every article list.  *)
(***************************************************************************)
Init ==
    /\ req = [r \in Requests |-> NewRequest]
    /\ fmt = FmtOff

Next ==
    \/ \E i \in Instruments, a \in RequestArticles : AnalyzeNews(1, i, a)
    \/ \E result \in AnalysisResults : AnalysisReturns(1, result)
    \/ \E result \in VerdictResults : VerdictReturns(1, result)
    \/ \E i \in Instruments : GetMarketContext(1, i)
    \/ \E result \in ContextResults : ContextReturns(1, result)

Spec == Init /\ [][Next]_vars

NextConcurrent ==
    \E r \in Requests :
        \/ \E i \in Instruments, a \in ConcurrentArticles : AnalyzeNews(r, i, a)
        \/ \E result \in ConcurrentAnalysisResults : AnalysisReturns(r, result)
        \/ \E result \in ConcurrentVerdictResults : VerdictReturns(r, result)
        \/ \E i \in Instruments : GetMarketContext(r, i)
        \/ \E result \in ConcurrentContextResults : ContextReturns(r, result)

SpecConcurrent == Init /\ [][NextConcurrent]_vars

InitFormat ==
    /\ req = [r \in Requests |-> NewRequest]
    /\ fmt \in {[pc |-> "ready", articles |-> l, text |-> <<>>] : l \in ArticleLists}

NextFormat == Format

SpecFormat == InitFormat /\ [][NextFormat]_vars

(***************************************************************************)
(* Properties.                                                             *)
(***************************************************************************)
\* The completion call failed: it raised, or its response has no choices.
Failed(result) == result.raised \/ Len(result.choices) = 0

\* The completion call returned text.
ReturnedText(result) ==
    ~result.raised /\ Len(result.choices) > 0 /\ result.choices[1].type = "str"

\* str(e) of the exception a failed call ends in.
ErrorText(result) ==
    IF result.raised THEN result.exc.text ELSE <<"list index out of range">>

FixedDefault ==
    JObj({<<"verdict", JStr("NEUTRAL")>>,
          <<"confidence", JNum(50)>>,
          <<"key_reason", JStr("Could not parse verdict response")>>})

Keys(v) == {m[1] : m \in v.members}

\* C1: an analyze-news request issues its second call only after the first
\* has come back; when the first call returned text the calls issued are
\* exactly the narrative call followed by the verdict call, whose user prompt
\* contains the whole text the first call returned; and when both calls
\* returned text the request is done with exactly these two calls.
C1_TwoCallsChained ==
    \A r \in Requests :
        LET rq == req[r]
        IN  rq.kind = "analyze" =>
              /\ Len(rq.calls) <= Len(rq.results) + 1
              /\ rq.calls[1].system = SYSTEM_PROMPT
              /\ Contains(rq.calls[1].user, FormatArticles(rq.articles))
              /\ (Len(rq.results) >= 1 /\ ReturnedText(rq.results[1])) =>
                    /\ Len(rq.calls) = 2
                    /\ rq.calls[2].system = ADVISOR_PROMPT
                    /\ Contains(rq.calls[2].user, rq.results[1].choices[1].text)
              /\ (/\ Len(rq.results) = 2
                  /\ ReturnedText(rq.results[1])
                  /\ ReturnedText(rq.results[2])) => rq.pc = "done"

\* A request with no articles whose two calls returned text has ended.
C1_Witness ==
    \E r \in Requests :
        /\ req[r].kind = "analyze" /\ req[r].articles = <<>> /\ req[r].pc = "done"
        /\ Len(req[r].calls) = 2
        /\ ReturnedText(req[r].results[1]) /\ ReturnedText(req[r].results[2])
        /\ Len(req[r].results[1].choices[1].text) > 1

\* C2: when the first completion call of an analyze-news request failed
\* (raised, or returned no choices), no verdict call is ever issued and the
\* request is aborted with exactly one response, a 500.
C2_FirstFailureAborts ==
    \A r \in Requests :
        LET rq == req[r]
        IN  (rq.kind = "analyze" /\ Len(rq.results) >= 1 /\ Failed(rq.results[1])) =>
              /\ rq.pc = "aborted"
              /\ Len(rq.calls) = 1
              /\ \A i \in 1..Len(rq.calls) : rq.calls[i].system # ADVISOR_PROMPT
              /\ Len(rq.out) = 1
              /\ rq.out[1].status_code = 500

\* The first call came back with no choices.
C2_Witness ==
    \E r \in Requests :
        /\ req[r].kind = "analyze" /\ req[r].pc = "aborted"
        /\ Len(req[r].results) = 1
        /\ ~req[r].results[1].raised /\ Len(req[r].results[1].choices) = 0

\* The first call of request q and the second call of request r failed alike.
SameFailure(q, r) ==
    /\ req[q].kind = "analyze" /\ Len(req[q].results) = 1
    /\ Failed(req[q].results[1])
    /\ req[q].results[1] = req[r].results[2]

\* C3: when the first call succeeded and the verdict call failed, the request
\* is aborted with one 500 response whose body holds a detail and nothing
\* else (no analysis, no verdict); no aborted request carries a partial
\* result; and the response is the one a request gets whose first call failed
\* the same way, so it does not tell the stage.
C3_SecondFailureOpaque ==
    \A r \in Requests :
        LET rq == req[r]
        IN  /\ rq.pc = "aborted" => \A i \in 1..Len(rq.out) : DOMAIN rq.out[i].body = {"detail"}
            /\ (/\ rq.kind = "analyze" /\ Len(rq.results) = 2
                /\ ~Failed(rq.results[1]) /\ Failed(rq.results[2])) =>
                  /\ rq.pc = "aborted"
                  /\ Len(rq.out) = 1
                  /\ rq.out[1].status_code = 500
                  /\ DOMAIN rq.out[1].body = {"detail"}
                  /\ \A q \in Requests : SameFailure(q, r) => req[q].out = rq.out

\* One request failed at the verdict call, another at the first call, alike.
C3_Witness ==
    \E r, q \in Requests :
        /\ req[r].kind = "analyze" /\ Len(req[r].results) = 2
        /\ ~Failed(req[r].results[1]) /\ Failed(req[r].results[2])
        /\ SameFailure(q, r)

\* The content is text that json.loads reads as an object.
WellFormedPayload(content) ==
    LET l == Loads(content) IN ~l.raised /\ l.val.kind = "object"

C5_CoercionRoundTrip ==
    \A r \in Requests :
        LET rq == req[r]
        IN  (rq.kind = "analyze" /\ Len(rq.results) = 2 /\ ReturnedText(rq.results[2])) =>
              LET t == rq.results[2].choices[1].text
              IN  /\ \A o \in KeyOrders, v \in VerdictWords, c \in Confidences, k \in Reasons :
                        t = VerdictObject(o, v, c, k) =>
                          /\ rq.pc = "done"
                          /\ rq.out[1].body.verdict =
                                JObj({<<"verdict", JStr(v)>>, <<"confidence", JNum(c)>>,
                                      <<"key_reason", JStr(k)>>})
                  /\ t \in MalformedTexts =>
                          /\ rq.pc = "done"
                          /\ rq.out[1].body.verdict = FixedDefault

\* A verdict word outside the five literals came through.
C5_Witness ==
    \E r \in Requests :
        /\ req[r].kind = "analyze" /\ req[r].pc = "done"
        /\ req[r].results[2].choices[1].text \in WellFormedTexts
        /\ <<"verdict", JStr("HOLD")>> \in req[r].out[1].body.verdict.members

\* C6: whenever both completion calls of an analyze-news request succeeded,
\* the request is done with a success response that carries the narrative as
\* analysis and a verdict, whatever content the second call returned.
C6_ParseFailureNeverSurfaced ==
    \A r \in Requests :
        LET rq == req[r]
        IN  (/\ rq.kind = "analyze" /\ Len(rq.results) = 2
             /\ ~Failed(rq.results[1]) /\ ~Failed(rq.results[2])) =>
              /\ rq.pc = "done"
              /\ Len(rq.out) = 1
              /\ rq.out[1].status_code = 200
              /\ DOMAIN rq.out[1].body = {"status", "analysis", "verdict"}
              /\ rq.out[1].body.status = "success"
              /\ rq.out[1].body.analysis = rq.results[1].choices[1]

\* C7: a get-market-context request has issued exactly one completion call;
\* when the call returned text the response is {market_context: that text},
\* and when it failed the request is aborted with a 500 that holds no
\* market_context.
C7_ContextPassThrough ==
    \A r \in Requests :
        LET rq == req[r]
        IN  rq.kind = "context" =>
              /\ Len(rq.calls) = 1
              /\ rq.calls[1].system = ANALYST_PROMPT
              /\ (Len(rq.results) = 1 /\ ReturnedText(rq.results[1])) =>
                    /\ rq.pc = "done"
                    /\ rq.out = <<[status_code |-> 200,
                                   body |-> [market_context |->
                                               PyStr(rq.results[1].choices[1].text)]]>>
              /\ (Len(rq.results) = 1 /\ Failed(rq.results[1])) =>
                    /\ rq.pc = "aborted"
                    /\ Len(rq.out) = 1
                    /\ rq.out[1].status_code = 500
                    /\ "market_context" \notin DOMAIN rq.out[1].body

\* A context of several lines was returned.
C7_Witness ==
    \E r \in Requests :
        /\ req[r].kind = "context" /\ req[r].pc = "done"
        /\ ReturnedText(req[r].results[1])
        /\ Len(req[r].results[1].choices[1].text) > 1

\* C8: no call is issued again: an analyze-news request has issued at most
\* one narrative and one verdict call, a get-market-context request at most
\* one call; and a failed completion call is the last of its request, which
\* is aborted with one 500 response whose detail is the text of the error.
C8_NoRetry ==
    \A r \in Requests :
        LET rq == req[r]
        IN  /\ rq.kind = "analyze" =>
                /\ Len(rq.calls) <= 2
                /\ Cardinality({i \in 1..Len(rq.calls) : rq.calls[i].system = SYSTEM_PROMPT}) <= 1
                /\ Cardinality({i \in 1..Len(rq.calls) : rq.calls[i].system = ADVISOR_PROMPT}) <= 1
            /\ rq.kind = "context" => Len(rq.calls) <= 1
            /\ \A i \in 1..Len(rq.results) :
                  Failed(rq.results[i]) =>
                    /\ i = Len(rq.results)
                    /\ Len(rq.calls) = i
                    /\ rq.pc = "aborted"
                    /\ rq.out = <<[status_code |-> 500,
                                   body |-> [detail |-> ErrorText(rq.results[i])]]>>

\* A call raised and its request was aborted.
C8_Witness ==
    \E r \in Requests :
        /\ req[r].pc = "aborted"
        /\ Len(req[r].results) = 2
        /\ req[r].results[2] = Raised(RateLimitError)

RECURSIVE SplitLines(_)
\* The lines of a text: its parts between line breaks.
SplitLines(t) ==
    IF \A i \in 1..Len(t) : t[i] # NL THEN <<t>>
    ELSE LET i == CHOOSE j \in 1..Len(t) : t[j] = NL /\ \A k \in 1..(j - 1) : t[k] # NL
         IN  <<SubSeq(t, 1, i - 1)>> \o SplitLines(SubSeq(t, i + 1, Len(t)))

\* The line starts with the label, then gives the field, or the placeholder
\* when the article has no such field.
LineOf(line, label, article, key, placeholder) ==
    /\ Len(line) >= 1
    /\ line[1] = label
    /\ key \notin DOMAIN article => Tail(line) = <<placeholder>>
    /\ (key \in DOMAIN article /\ article[key].type = "str") => Tail(line) = article[key].text

\* One block of four lines per article, blocks in order and one empty line
\* apart; nothing for no articles.
FourLineBlocks(articles, text) ==
    LET n == Len(articles)
        lines == SplitLines(text)
    IN  /\ n = 0 => text = <<>>
        /\ n > 0 =>
            /\ Len(lines) = 5 * n - 1
            /\ \A i \in 1..n :
                LET at == 5 * (i - 1)
                IN  /\ LineOf(lines[at + 1], "Title: ", articles[i], "title", "No Title")
                    /\ LineOf(lines[at + 2], "Content: ", articles[i], "content", "No Content")
                    /\ LineOf(lines[at + 3], "Source: ", articles[i], "source", "Unknown")
                    /\ LineOf(lines[at + 4], "Date: ", articles[i], "date", "Unknown")
                    /\ i < n => lines[at + 5] = <<>>

\* No field of any article holds a line break.
SingleLineFields(articles) ==
    \A i \in 1..Len(articles) : \A k \in DOMAIN articles[i] :
        \A j \in 1..Len(Str(articles[i][k])) : Str(articles[i][k])[j] # NL

\* C9 as stated: for every article list the formatted text is one four-line
\* block per article (Title, Content, Source, Date), in order, one blank line
\* apart, absent fields replaced by their placeholders, and empty for the
\* empty list.
C9_FourLineBlocksAlways ==
    fmt.pc = "done" => FourLineBlocks(fmt.articles, fmt.text)

\* C9 as amended: the same, for every article list none of whose field values
\* holds a line break.
C9_FourLineBlocksSingleLine ==
    (fmt.pc = "done" /\ SingleLineFields(fmt.articles)) =>
        FourLineBlocks(fmt.articles, fmt.text)

\* Two articles, fields missing, no line break in any field.
C9_Witness ==
    /\ fmt.pc = "done"
    /\ Len(fmt.articles) = 2
    /\ SingleLineFields(fmt.articles)
    /\ DOMAIN fmt.articles[1] = {"content"}
    /\ DOMAIN fmt.articles[2] = {"title", "date"}

\* What request r's own inputs and completion results make of its response.
OwnResponse(r) ==
    LET rq == req[r]
        last == rq.results[Len(rq.results)]
    IN  IF rq.pc = "aborted" THEN [status_code |-> 500, body |-> [detail |-> ErrorText(last)]]
        ELSE IF rq.kind = "context"
        THEN [status_code |-> 200, body |-> [market_context |-> rq.results[1].choices[1]]]
        ELSE [status_code |-> 200,
              body |-> [status |-> "success",
                        analysis |-> rq.results[1].choices[1],
                        verdict |-> IF rq.results[2].choices[1].text \in MalformedTexts
                                    THEN FixedDefault
                                    ELSE Loads(rq.results[2].choices[1]).val]]

\* Each request stands on its own inputs and results.
Independent ==
    \A r \in Requests :
        LET rq == req[r]
        IN  /\ (rq.kind = "analyze" /\ Len(rq.calls) = 2) =>
                /\ Contains(rq.calls[2].user, Str(rq.results[1].choices[1]))
                /\ Contains(rq.calls[2].user, rq.instrument)
                /\ \A i \in Instruments \ {rq.instrument} : ~Contains(rq.calls[2].user, i)
            /\ rq.pc \in {"done", "aborted"} => rq.out = <<OwnResponse(r)>>

\* A step is one request's, leaves every other request as it was, and leaves
\* a request that has ended as it ended.
OneRequestPerStep ==
    \A r \in Requests :
        /\ req'[r] # req[r] => \A q \in Requests \ {r} : req'[q] = req[q]
        /\ req[r].pc \in {"done", "aborted"} => req'[r] = req[r]

\* C10: with several requests in flight and their steps interleaved, each
\* analyze-news request's verdict prompt contains its own first-call output
\* and its own instrument, each response is built from the request's own
\* inputs and results, and no step of one request changes another request
\* or the outcome of one that has ended.
C10_RequestsIndependent == []Independent /\ [][OneRequestPerStep]_vars

\* Two analyze-news requests have ended with different analyses.
C10_Witness ==
    \E r, q \in Requests :
        /\ r < q
        /\ req[r].kind = "analyze" /\ req[r].pc = "done"
        /\ req[q].kind = "analyze" /\ req[q].pc = "done"
        /\ req[r].out[1].body.analysis # req[q].out[1].body.analysis
        /\ req[r].instrument # req[q].instrument

====
